---- MODULE Spec2Model ----
(***************************************************************************)
(* Composite image rendering of a layered enabled element                  *)
(* (src/src/internal/drawCompositeImage.js): viewport sync state, viewport *)
(* synchronizer, layer rescaler and the composite renderer.                *)
(*                                                                         *)
(* JavaScript Numbers are binary floating point: every * and / returns the *)
(* exact result rounded to nearest, ties to even.  The model keeps that    *)
(* rounding and carries Precision significant bits instead of 53; the      *)
(* exponent is unbounded (no overflow, no underflow).  A number is the     *)
(* pair <<m, e>> standing for m * 2^e, with 2^(Precision-1) <= |m| <       *)
(* 2^Precision, or <<0, 0>>.                                               *)
(***************************************************************************)
EXTENDS Integers, Sequences, FiniteSets, TLC

\* ------------------------------------------------------------------ bounds
Precision == 3      \* significant bits of a Number
NumLayers == 2      \* largest layer registry

\* ------------------------------------------------- Number arithmetic (JS)
Abs(n) == IF n < 0 THEN 0 - n ELSE n
Sign(n) == IF n < 0 THEN 0 - 1 ELSE 1

RECURSIVE Normalize(_, _, _)
\* a/d * 2^e with a, d > 0: scale until 2^(Precision-1) <= a/d < 2^Precision
Normalize(a, d, e) ==
  IF a < d * 2^(Precision - 1) THEN Normalize(2 * a, d, e - 1)
  ELSE IF a >= d * 2^Precision THEN Normalize(a, 2 * d, e + 1)
  ELSE <<a, d, e>>

\* the Number nearest to (n/d) * 2^e, ties to even (d > 0)
FRound(n, d, e) ==
  IF n = 0 THEN <<0, 0>>
  ELSE LET t == Normalize(Abs(n), d, e)
           q == t[1] \div t[2]
           r == t[1] % t[2]
           up == (2 * r > t[2]) \/ (2 * r = t[2] /\ q % 2 = 1)
           m == IF up THEN q + 1 ELSE q
       IN  IF m = 2^Precision THEN <<Sign(n) * 2^(Precision - 1), t[3] + 1>>
           ELSE <<Sign(n) * m, t[3]>>

Num(n) == FRound(n, 1, 0)
Frac(n, d) == FRound(n, d, 0)

\* x * y
FMul(x, y) == FRound(x[1] * y[1], 1, x[2] + y[2])

\* x / y, y nonzero
FDiv(x, y) == FRound(Sign(y[1]) * x[1], Abs(y[1]), x[2] - y[2])

\* -------------------------------------------------------------- JS values
Undefined == [undefined |-> TRUE]
IsDefined(v) == v # Undefined

\* String.prototype.indexOf over an identifier kept as its sequence of parts
IndexOf(s, part) ==
  IF \E i \in 1..Len(s) : s[i] = part
  THEN (CHOOSE i \in 1..Len(s) : s[i] = part /\ \A j \in 1..(i - 1) : s[j] # part) - 1
  ELSE 0 - 1

\* ------------------------------------------------------------------ state
VARIABLES
  layers,    \* the element's layer registry, in registry order (getLayers)
  active,    \* index of the active layer, 0 when the registry is empty
  element,   \* enabledElement: syncViewports, lastSyncViewportsState
  pc,        \* position inside the running call, "Idle" between calls
  canvas,    \* what the running call has done to the output context, in order
  thrown,    \* the exception the last call ended with, "none" otherwise
  call,      \* the last call made: its name and arguments
  before,    \* the registry as it was when a directly called function began
  ret,       \* the values directly called functions returned
  frames     \* how many times the composite renderer has been called

vars == <<layers, active, element, pc, canvas, thrown, call, before, ret, frames>>

\* ---------------------------------------------- viewport sync state (10-29)
UpdateLayerSyncPropsUnit(layer) ==
  [layer EXCEPT !.syncProps = [originalScale |-> Num(1)]]

\* updateLayerSyncProps: the caller has made sure layer.viewport exists
UpdateLayerSyncProps(layer) ==
  [layer EXCEPT !.syncProps = [originalScale |-> layer.viewport.scale]]

GetViewportRatioAlwaysCaptures(ls, b, t) ==
  LET ls1 == [ls EXCEPT ![b] = UpdateLayerSyncProps(ls[b])]
      ls2 == [ls1 EXCEPT ![t] = UpdateLayerSyncProps(ls1[t])]
  IN  [layers |-> ls2,
       ratio  |-> FDiv(ls2[t].syncProps.originalScale, ls2[b].syncProps.originalScale)]

\* getViewportRatio over registry entries b (base) and t (target): the
\* registry after the lazy captures, and the ratio returned
GetViewportRatio(ls, b, t) ==
  LET ls1 == IF ~IsDefined(ls[b].syncProps)
             THEN [ls EXCEPT ![b] = UpdateLayerSyncProps(ls[b])] ELSE ls
      ls2 == IF ~IsDefined(ls1[t].syncProps)
             THEN [ls1 EXCEPT ![t] = UpdateLayerSyncProps(ls1[t])] ELSE ls1
  IN  [layers |-> ls2,
       ratio  |-> FDiv(ls2[t].syncProps.originalScale, ls2[b].syncProps.originalScale)]

\* ------------------------------------------------ syncViewports (32-61)
SyncedViewportTranslationMultiplied(vp, av, viewportRatio) ==
  [vp EXCEPT !.scale = FMul(av.scale, viewportRatio),
             !.rotation = av.rotation,
             !.translation = [x |-> FMul(av.translation.x, viewportRatio),
                              y |-> FMul(av.translation.y, viewportRatio)],
             !.hflip = av.hflip,
             !.vflip = av.vflip]

SyncedViewportFlipsSwapped(vp, av, viewportRatio) ==
  [vp EXCEPT !.scale = FMul(av.scale, viewportRatio),
             !.rotation = av.rotation,
             !.translation = [x |-> FDiv(av.translation.x, viewportRatio),
                              y |-> FDiv(av.translation.y, viewportRatio)],
             !.hflip = av.vflip,
             !.vflip = av.hflip]

SyncedViewportScaleCompounded(vp, av, viewportRatio) ==
  [vp EXCEPT !.scale = FMul(vp.scale, viewportRatio),
             !.rotation = av.rotation,
             !.translation = [x |-> FDiv(av.translation.x, viewportRatio),
                              y |-> FDiv(av.translation.y, viewportRatio)],
             !.hflip = av.hflip,
             !.vflip = av.vflip]

SyncedViewportScaleDivided(vp, av, viewportRatio) ==
  [vp EXCEPT !.scale = FDiv(av.scale, viewportRatio),
             !.rotation = av.rotation,
             !.translation = [x |-> FDiv(av.translation.x, viewportRatio),
                              y |-> FDiv(av.translation.y, viewportRatio)],
             !.hflip = av.hflip,
             !.vflip = av.vflip]

\* the layer's viewport vp after the assignments from the active layer's av
SyncedViewport(vp, av, viewportRatio) ==
  [vp EXCEPT !.scale = FMul(av.scale, viewportRatio),
             !.rotation = av.rotation,
             !.translation = [x |-> FDiv(av.translation.x, viewportRatio),
                              y |-> FDiv(av.translation.y, viewportRatio)],
             !.hflip = av.hflip,
             !.vflip = av.vflip]

SyncLayerAlwaysCaptures(ls, i, a) ==
  IF i = a \/ ~IsDefined(ls[i].viewport) \/ ~IsDefined(ls[a].viewport) THEN ls
  ELSE LET ls1 == [ls EXCEPT ![i] = UpdateLayerSyncProps(ls[i])]
           g   == GetViewportRatio(ls1, a, i)
           ls2 == g.layers
       IN  [ls2 EXCEPT ![i].viewport = SyncedViewport(@, ls2[a].viewport, g.ratio)]

\* the body of the forEach callback for registry entry i, active layer a
SyncLayer(ls, i, a) ==
  IF i = a \/ ~IsDefined(ls[i].viewport) \/ ~IsDefined(ls[a].viewport) THEN ls
  ELSE LET ls1 == IF ~IsDefined(ls[i].syncProps)
                  THEN [ls EXCEPT ![i] = UpdateLayerSyncProps(ls[i])] ELSE ls
           g   == GetViewportRatio(ls1, a, i)
           ls2 == g.layers
       IN  [ls2 EXCEPT ![i].viewport = SyncedViewport(@, ls2[a].viewport, g.ratio)]

RECURSIVE SyncFrom(_, _, _, _)
SyncFrom(ls, idx, k, a) ==
  IF k > Len(idx) THEN ls ELSE SyncFrom(SyncLayer(ls, idx[k], a), idx, k + 1, a)

SyncViewportsEveryLayer(ls, idx, a) == SyncFrom(ls, [i \in 1..Len(ls) |-> i], 1, a)

\* syncViewports(layers, activeLayer): idx lists the registry entries passed
SyncViewports(ls, idx, a) == SyncFrom(ls, idx, 1, a)

\* ------------------------------------------------- rescaleImage (302-322)
SameLayerNever(base, target) == FALSE

\* baseLayer.layerId === targetLayer.layerId
SameLayer(base, target) == base.layerId = target.layerId

LacksImageIdNever(image) == FALSE

\* !image.imageId
LacksImageId(image) == image.imageId = <<>>

ColRelativeInverted(base, target) ==
  FDiv(FMul(base.viewport.displayedArea.columnPixelSpacing, base.image.width),
       FMul(target.viewport.displayedArea.columnPixelSpacing, target.image.width))

ColRelative(base, target) ==
  FDiv(FMul(target.viewport.displayedArea.columnPixelSpacing, target.image.width),
       FMul(base.viewport.displayedArea.columnPixelSpacing, base.image.width))

\* the scale rescaleImage assigns to the target layer
RescaledScale(base, target) ==
  LET viewportRatio ==
        FMul(FDiv(target.viewport.scale, base.viewport.scale), ColRelative(base, target))
  IN  FMul(base.viewport.scale, viewportRatio)

\* b = 0 stands for an undefined base layer; the result is the registry
\* after the call and the exception it ended with
RescaleImage(ls, b, t) ==
  IF b = 0 THEN [layers |-> ls, thrown |-> "TypeError"]
  ELSE IF SameLayer(ls[b], ls[t]) THEN [layers |-> ls, thrown |-> "Error"]
  ELSE IF ~IsDefined(ls[b].image) THEN [layers |-> ls, thrown |-> "TypeError"]
  ELSE IF LacksImageId(ls[b].image) THEN [layers |-> ls, thrown |-> "none"]
  ELSE IF ~IsDefined(ls[t].image) THEN [layers |-> ls, thrown |-> "TypeError"]
  ELSE IF LacksImageId(ls[t].image) THEN [layers |-> ls, thrown |-> "none"]
  ELSE IF ~IsDefined(ls[t].viewport) \/ ~IsDefined(ls[b].viewport)
       THEN [layers |-> ls, thrown |-> "TypeError"]
  ELSE [layers |-> [ls EXCEPT ![t].viewport.scale = RescaledScale(ls[b], ls[t])],
        thrown |-> "none"]

\* ----------------------------------------------------------------- inputs
\* viewports a layer can carry (createViewport's fields this file reads)
Viewport(scale, rotation, tx, ty, hflip, vflip, colSpacing) ==
  [scale |-> scale, rotation |-> rotation, translation |-> [x |-> tx, y |-> ty],
   hflip |-> hflip, vflip |-> vflip,
   displayedArea |-> [columnPixelSpacing |-> colSpacing,
                      tlhc |-> [x |-> 1, y |-> 1], brhc |-> [x |-> 256, y |-> 256]],
   colormap |-> "undefined", labelmap |-> "undefined"]

ViewportInputs ==
  { Viewport(Num(1), 0, Num(0), Num(0), FALSE, FALSE, Num(1)),
    Viewport(Frac(7, 4), 90, Num(3), Num(0 - 5), TRUE, FALSE, Frac(1, 2)),
    Viewport(Frac(3, 4), 180, Num(0 - 2), Num(1), FALSE, TRUE, Num(1)) }

Image(imageId, width, height) ==
  [imageId |-> imageId, width |-> width, height |-> height,
   rowPixelSpacing |-> Num(1), columnPixelSpacing |-> Num(1), color |-> FALSE]

ImageInputs ==
  { Image(<<"ct">>, Num(256), Num(256)),
    Image(<<"pet">>, Num(512), Num(512)),
    Image(<<>>, Num(256), Num(256)) }

SnapshotInputs == { [originalScale |-> Num(1)], [originalScale |-> Frac(7, 4)],
                    [originalScale |-> Frac(3, 4)] }

Layer(layerId, image, viewport, syncProps, name, visible) ==
  [layerId |-> layerId, image |-> image, viewport |-> viewport,
   syncProps |-> syncProps,
   options |-> [name |-> name, reSize |-> FALSE, visible |-> visible,
                colormap |-> "undefined"],
   invalid |-> FALSE]

\* getVisibleLayers: the registry entries that are visible, in registry order
GetVisibleLayers(ls) ==
  SelectSeq([i \in 1..Len(ls) |-> i], LAMBDA i : ls[i].options.visible)

\* --------------------------------------- rescaleImage called on its own
RescaleInputs ==
  { <<im, vp>> : im \in ImageInputs \cup {Undefined}, vp \in ViewportInputs }

InitRescale ==
  /\ \E n \in 1..NumLayers : \E in \in [1..n -> RescaleInputs] :
       layers = [i \in 1..n |-> Layer(i, in[i][1], in[i][2], Undefined, "CT", TRUE)]
  /\ active = 1
  /\ element = [syncViewports |-> "false", lastSyncViewportsState |-> "undefined"]
  /\ pc = "Idle"
  /\ canvas = <<>>
  /\ thrown = "none"
  /\ call = <<>>
  /\ before = layers
  /\ ret = <<>>
  /\ frames = 0

CallRescaleImage(b, t) ==
  /\ pc = "Idle"
  /\ LET r == RescaleImage(layers, b, t)
     IN  /\ layers' = r.layers
         /\ thrown' = r.thrown
  /\ call' = <<[op |-> "rescaleImage", base |-> b, target |-> t]>>
  /\ before' = layers
  /\ pc' = "Done"
  /\ UNCHANGED <<active, element, canvas, ret, frames>>

NextRescale == \E b, t \in 1..Len(layers) : CallRescaleImage(b, t)

SpecRescale == InitRescale /\ [][NextRescale]_vars

\* -------------------------------------- syncViewports called on its own
\* a layer has a snapshot only if it has the viewport the snapshot was taken of
SyncInputs ==
  { <<vp, sp, vis>> : vp \in ViewportInputs, sp \in SnapshotInputs \cup {Undefined},
                      vis \in BOOLEAN }
    \cup { <<Undefined, Undefined, vis>> : vis \in BOOLEAN }

InitSync ==
  /\ \E n \in 1..NumLayers : \E in \in [1..n -> SyncInputs] :
       /\ layers = [i \in 1..n |->
                      Layer(i, Image(<<"ct">>, Num(256), Num(256)), in[i][1], in[i][2], "CT", in[i][3])]
       /\ active \in 1..n
  /\ element = [syncViewports |-> "true", lastSyncViewportsState |-> "true"]
  /\ pc = "Idle"
  /\ canvas = <<>>
  /\ thrown = "none"
  /\ call = <<>>
  /\ before = layers
  /\ ret = <<>>
  /\ frames = 0

\* two calls in a row with the same arguments
CallSyncViewports ==
  /\ pc \in {"Idle", "Done"}
  /\ layers' = SyncViewports(layers, GetVisibleLayers(layers), active)
  /\ call' = <<[op |-> "syncViewports"]>>
  /\ before' = layers
  /\ pc' = IF pc = "Idle" THEN "Done" ELSE "Twice"
  /\ UNCHANGED <<active, element, canvas, thrown, ret, frames>>

NextSync == CallSyncViewports

SpecSync == InitSync /\ [][NextSync]_vars

\* ------------------------------------- getViewportRatio called on its own
RatioInputs ==
  { <<vp, sp>> : vp \in ViewportInputs, sp \in SnapshotInputs \cup {Undefined} }

InitRatio ==
  /\ \E n \in 1..NumLayers : \E in \in [1..n -> RatioInputs] :
       layers = [i \in 1..n |->
                   Layer(i, Image(<<"ct">>, Num(256), Num(256)), in[i][1], in[i][2], "CT", TRUE)]
  /\ active = 1
  /\ element = [syncViewports |-> "false", lastSyncViewportsState |-> "undefined"]
  /\ pc = "Idle"
  /\ canvas = <<>>
  /\ thrown = "none"
  /\ call = <<>>
  /\ before = layers
  /\ ret = <<>>
  /\ frames = 0

\* two calls in a row, each with any pair of layers
CallGetViewportRatio(b, t) ==
  /\ pc \in {"Idle", "Once"}
  /\ LET g == GetViewportRatio(layers, b, t)
     IN  /\ layers' = g.layers
         /\ ret' = Append(ret, g.ratio)
  /\ call' = Append(call, [op |-> "getViewportRatio", base |-> b, target |-> t])
  /\ pc' = IF pc = "Idle" THEN "Once" ELSE "Twice"
  /\ UNCHANGED <<active, element, canvas, thrown, before, frames>>

NextRatio == \E b, t \in 1..Len(layers) : CallGetViewportRatio(b, t)

SpecRatio == InitRatio /\ [][NextRatio]_vars

\* ---------------------------------------------- composite renderer (147-214)
MaxFrames == 2      \* render calls in one behaviour

\* the output canvas of the enabled element
CanvasWidth == 768
CanvasHeight == 512

\* x < y
FLess(x, y) ==
  LET e == IF x[2] < y[2] THEN x[2] ELSE y[2]
  IN  x[1] * 2^(x[2] - e) < y[1] * 2^(y[2] - e)

\* JavaScript truthiness of a value of the sync flag
Truthy(v) == v \in {"true", "1"}

\* getImageFitScale(canvas, image, 0) for an image of square pixels
GetImageFitScale(image) ==
  LET horizontalScale == FDiv(Num(CanvasWidth), image.width)
      verticalScale == FDiv(Num(CanvasHeight), image.height)
  IN  [horizontalScale |-> horizontalScale,
       verticalScale |-> verticalScale,
       scaleFactor |-> IF FLess(verticalScale, horizontalScale)
                       THEN verticalScale ELSE horizontalScale]

\* imageId.indexOf('petmpr') > -1 && imageId.indexOf('Axial') === -1
IsPetMprNonAxial(image) ==
  IndexOf(image.imageId, "petmpr") > -1 /\ IndexOf(image.imageId, "Axial") = -1

CaptureAllMissingOnly(ls) ==
  [i \in 1..Len(ls) |->
     IF IsDefined(ls[i].viewport) /\ ~IsDefined(ls[i].syncProps)
     THEN UpdateLayerSyncProps(ls[i]) ELSE ls[i]]

\* the resynced branch: a snapshot for every layer that has a viewport
CaptureAll(ls) ==
  [i \in 1..Len(ls) |->
     IF IsDefined(ls[i].viewport) THEN UpdateLayerSyncProps(ls[i]) ELSE ls[i]]

BResetPetScale(ls) ==
  \E i \in 1..Len(ls) : ls[i].options.name = "PET" /\ ls[i].options.reSize

\* ctFusionLayer[0]: the first layer not named PET, 0 when there is none
CtFusionLayer(ls) ==
  LET ct == SelectSeq([i \in 1..Len(ls) |-> i], LAMBDA i : ls[i].options.name # "PET")
  IN  IF Len(ct) > 0 THEN ct[1] ELSE 0

\* the scale a PET layer is reset to before it is rescaled
PetFitScale(image) ==
  IF IsPetMprNonAxial(image)
  THEN IF FLess(image.height, image.width)
       THEN GetImageFitScale(image).horizontalScale
       ELSE GetImageFitScale(image).verticalScale
  ELSE GetImageFitScale(image).scaleFactor

\* the body of the loop over allLayers for registry entry k
ResizeLayer(ls, k) ==
  IF ls[k].options.name = "PET"
  THEN IF ~IsDefined(ls[k].image) \/ ~IsDefined(ls[k].viewport)
       THEN [layers |-> ls, thrown |-> "TypeError"]
       ELSE LET ls1 == [ls EXCEPT ![k].viewport.scale = PetFitScale(ls[k].image)]
                r   == RescaleImage(ls1, CtFusionLayer(ls), k)
            IN  IF r.thrown # "none" THEN r
                ELSE [layers |-> [r.layers EXCEPT
                                    ![k] = UpdateLayerSyncProps(
                                             [@ EXCEPT !.options.reSize = FALSE])],
                      thrown |-> "none"]
  ELSE [layers |-> IF IsDefined(ls[k].viewport)
                   THEN [ls EXCEPT ![k] = UpdateLayerSyncProps(ls[k])] ELSE ls,
        thrown |-> "none"]

\* ------------------------------------------------- renderLayers (73-138)
\* calculatePetFuisonTransform reads the active layer's viewport and image
\* and the layer's viewport before it asks for the viewport ratio
FusionThrows(ls, i, a) ==
  ~IsDefined(ls[a].viewport) \/ ~IsDefined(ls[a].image) \/ ~IsDefined(ls[i].viewport)

FusionRotateAlways(angle, d) == <<[op |-> "rotate", degrees |-> d]>>

\* if (angle !== 0) transform.rotate(d * Math.PI / 180)
FusionRotate(angle, d) ==
  IF angle # 0 THEN <<[op |-> "rotate", degrees |-> d]>> ELSE <<>>

\* calculatePetFuisonTransform(layer i, active layer a): the registry after
\* the lazy captures of getViewportRatio, and the operations composed onto
\* the new Transform, in order; a rotation of d degrees is d * PI / 180
CalculatePetFuisonTransform(ls, i, a) ==
  LET av == ls[a].viewport
      lv == ls[i].viewport
      row == ls[a].image.rowPixelSpacing
      col == ls[a].image.columnPixelSpacing
      activeWidthScale == IF FLess(row, col) THEN FMul(av.scale, FDiv(col, row))
                          ELSE av.scale
      activeHeightScale == IF FLess(row, col) THEN av.scale
                           ELSE IF FLess(col, row) THEN FMul(av.scale, FDiv(row, col))
                           ELSE av.scale
      angle == lv.rotation
      width == lv.displayedArea.brhc.x - (lv.displayedArea.tlhc.x - 1)
      height == lv.displayedArea.brhc.y - (lv.displayedArea.tlhc.y - 1)
      activeHeight == av.displayedArea.brhc.y - (av.displayedArea.tlhc.y - 1)
      g == GetViewportRatio(ls, a, i)
      widthScale == FMul(activeWidthScale, g.ratio)
      heightScale == FMul(activeHeightScale, FDiv(Num(activeHeight), Num(height)))
      Rotate(d) == FusionRotate(angle, d)
  IN  [layers |-> g.layers,
       transform |->
         << [op |-> "translate", x |-> FDiv(Num(CanvasWidth), Num(2)),
                                 y |-> FDiv(Num(CanvasHeight), Num(2))] >>
         \o Rotate(angle)
         \o << [op |-> "scale", x |-> widthScale, y |-> heightScale] >>
         \o Rotate(0 - angle)
         \o << [op |-> "translate", x |-> lv.translation.x, y |-> lv.translation.y] >>
         \o Rotate(angle)
         \o (IF lv.hflip THEN <<[op |-> "scale", x |-> Num(0 - 1), y |-> Num(1)]>> ELSE <<>>)
         \o (IF lv.vflip THEN <<[op |-> "scale", x |-> Num(1), y |-> Num(0 - 1)]>> ELSE <<>>)
         \o << [op |-> "translate", x |-> FDiv(Num(0 - width), Num(2)),
                                 y |-> FDiv(Num(0 - height), Num(2))] >>]

MarkValidNever(layer) == layer

\* layer.invalid = false
MarkValid(layer) == [layer EXCEPT !.invalid = FALSE]

\* a colormap that is set: colormap && colormap !== '' (a colormap and a
\* labelmap flag are kept as the text of their value, "undefined" when unset)
ColormapSet(colormap) == colormap \notin {"undefined", ""}

RasterizeColorFirst(layer, index, invalidated) ==
  LET colormap == IF ColormapSet(layer.viewport.colormap)
                  THEN layer.viewport.colormap ELSE layer.options.colormap
      labelmap == layer.viewport.labelmap
      isInvalid == layer.invalid \/ invalidated
  IN  IF ColormapSet(colormap) /\ labelmap = "true"
      THEN [renderer |-> "addLabelMapLayer", isInvalid |-> isInvalid]
      ELSE IF layer.image.color = TRUE
      THEN [renderer |-> "addColorLayer", isInvalid |-> isInvalid]
      ELSE IF ColormapSet(colormap)
      THEN [renderer |-> "addPseudoColorLayer", isInvalid |-> isInvalid]
      ELSE [renderer |-> "addGrayscaleLayer", isInvalid |-> isInvalid,
            useAlphaChannel |-> (index = 0)]

\* lines 94-109: the external renderer called for layer i, which stands at
\* position index (from 0) of the list given to renderLayers
Rasterize(layer, index, invalidated) ==
  LET colormap == IF ColormapSet(layer.viewport.colormap)
                  THEN layer.viewport.colormap ELSE layer.options.colormap
      labelmap == layer.viewport.labelmap
      isInvalid == layer.invalid \/ invalidated
  IN  IF ColormapSet(colormap) /\ labelmap = "true"
      THEN [renderer |-> "addLabelMapLayer", isInvalid |-> isInvalid]
      ELSE IF ColormapSet(colormap)
      THEN [renderer |-> "addPseudoColorLayer", isInvalid |-> isInvalid]
      ELSE IF layer.image.color = TRUE
      THEN [renderer |-> "addColorLayer", isInvalid |-> isInvalid]
      ELSE [renderer |-> "addGrayscaleLayer", isInvalid |-> isInvalid,
            useAlphaChannel |-> (index = 0)]

\* the body of the forEach callback for registry entry i, at position index
\* of the list: the registry, the context's operations so far, and the
\* exception that ended it
DrawLayer(ls, cv, i, index, a, invalidated) ==
  IF ~IsDefined(ls[i].image) THEN [layers |-> ls, canvas |-> cv, thrown |-> "none"]
  ELSE LET cv1 == Append(cv, [op |-> "save", layer |-> i])
           fusion == IsPetMprNonAxial(ls[i].image)
       IN  IF (fusion /\ FusionThrows(ls, i, a)) \/ ~IsDefined(ls[i].viewport)
           THEN [layers |-> ls, canvas |-> cv1, thrown |-> "TypeError"]
           ELSE LET t   == CalculatePetFuisonTransform(ls, i, a)
                    ls1 == IF fusion THEN t.layers ELSE ls
                    cv2 == cv1 \o
                           << IF fusion
                              THEN [op |-> "setTransform", layer |-> i, m |-> t.transform]
                              ELSE [op |-> "setToPixelCoordinateSystem", layer |-> i],
                              [op |-> "rasterize", layer |-> i,
                               args |-> Rasterize(ls[i], index, invalidated)],
                              [op |-> "drawImage", layer |-> i],
                              [op |-> "restore", layer |-> i] >>
                IN  [layers |-> [ls1 EXCEPT ![i] = MarkValid(@)],
                     canvas |-> cv2, thrown |-> "none"]

\* lines 206-210: what clearing does to the context, in order
ClearOps ==
  << [op |-> "setTransform", layer |-> 0, m |-> <<1, 0, 0, 1, 0, 0>>],
     [op |-> "fillStyle", layer |-> 0, style |-> "black"],
     [op |-> "fillRect", layer |-> 0, rect |-> <<0, 0, CanvasWidth, CanvasHeight>>] >>

\* ----------------------------------------------------- the enabled element
LayerKinds ==
  { [image |-> Image(<<"ct">>, Num(256), Num(256)), name |-> "CT"],
    [image |-> Image(<<"pet">>, Num(512), Num(512)), name |-> "PET"],
    [image |-> Image(<<"petmpr", "Coronal">>, Num(512), Num(256)), name |-> "PET"],
    [image |-> Undefined, name |-> ""] }

\* a layer as the registry adds it: a default viewport when it has an image
NewLayer(layerId, kind) ==
  Layer(layerId, kind.image,
        IF IsDefined(kind.image)
        THEN Viewport(Num(1), 0, Num(0), Num(0), FALSE, FALSE, Num(1)) ELSE Undefined,
        Undefined, kind.name, TRUE)

Init ==
  /\ \E n \in 0..NumLayers : \E kinds \in [1..n -> LayerKinds] :
       /\ layers = [i \in 1..n |-> NewLayer(i, kinds[i])]
       /\ active \in IF n = 0 THEN {0} ELSE 1..n
  /\ element = [syncViewports |-> "false", lastSyncViewportsState |-> "undefined"]
  /\ pc = "Idle"
  /\ canvas = <<>>
  /\ thrown = "none"
  /\ call = <<>>
  /\ before = <<>>
  /\ ret = <<>>
  /\ frames = 0

\* ------------------------------------------- what the host view does
SetSyncViewports(v) ==
  /\ pc = "Idle" /\ frames < MaxFrames
  /\ element' = [element EXCEPT !.syncViewports = v]
  /\ UNCHANGED <<layers, active, pc, canvas, thrown, call, before, ret, frames>>

SetActiveLayer(i) ==
  /\ pc = "Idle" /\ frames < MaxFrames
  /\ active' = i
  /\ UNCHANGED <<layers, element, pc, canvas, thrown, call, before, ret, frames>>

SetViewport(i, vp) ==
  /\ pc = "Idle" /\ frames < MaxFrames
  /\ IsDefined(layers[i].viewport)
  /\ layers' = [layers EXCEPT ![i].viewport = vp]
  /\ UNCHANGED <<active, element, pc, canvas, thrown, call, before, ret, frames>>

SetVisible(i, visible) ==
  /\ pc = "Idle" /\ frames < MaxFrames
  /\ layers' = [layers EXCEPT ![i].options.visible = visible]
  /\ UNCHANGED <<active, element, pc, canvas, thrown, call, before, ret, frames>>

\* the host asks for a PET layer to be fitted to the canvas again
RequestResize(i) ==
  /\ pc = "Idle" /\ frames < MaxFrames
  /\ layers[i].options.name = "PET"
  /\ layers' = [layers EXCEPT ![i].options.reSize = TRUE]
  /\ UNCHANGED <<active, element, pc, canvas, thrown, call, before, ret, frames>>

\* ------------------------------- the composite renderer, step by step
\* lines 147-166: the call begins; ResyncCheck
RenderComposite(invalidated) ==
  /\ pc = "Idle"
  /\ frames < MaxFrames
  /\ LET resynced == ~Truthy(element.lastSyncViewportsState)
                       /\ Truthy(element.syncViewports)
     IN  /\ layers' = IF resynced THEN CaptureAll(layers) ELSE layers
         /\ call' = <<[op |-> "renderComposite", invalidated |-> invalidated,
                       resynced |-> resynced, bResetPetScale |-> FALSE, k |-> 0]>>
  /\ element' = [element EXCEPT !.lastSyncViewportsState = element.syncViewports]
  /\ frames' = frames + 1
  /\ pc' = "ResizeCheck"
  /\ UNCHANGED <<active, canvas, thrown, before, ret>>

\* lines 168-176: ResizeCheck
ResizeCheck ==
  /\ pc = "ResizeCheck"
  /\ call' = <<[call[1] EXCEPT !.bResetPetScale = BResetPetScale(layers), !.k = 1]>>
  /\ pc' = IF BResetPetScale(layers) THEN "ResizeLoop" ELSE "SyncApply"
  /\ UNCHANGED <<layers, active, element, canvas, thrown, before, ret, frames>>

\* lines 177-194: one iteration of the loop over allLayers
ResizeLoop ==
  /\ pc = "ResizeLoop"
  /\ LET r == ResizeLayer(layers, call[1].k)
     IN  /\ layers' = r.layers
         /\ thrown' = r.thrown
         /\ pc' = IF r.thrown # "none" THEN "Return"
                  ELSE IF call[1].k = Len(layers) THEN "ForcedSync" ELSE "ResizeLoop"
  /\ call' = <<[call[1] EXCEPT !.k = call[1].k + 1]>>
  /\ UNCHANGED <<active, element, canvas, before, ret, frames>>

\* line 195
ForcedSync ==
  /\ pc = "ForcedSync"
  /\ layers' = SyncViewports(layers, GetVisibleLayers(layers), active)
  /\ pc' = "SyncApply"
  /\ UNCHANGED <<active, element, canvas, thrown, call, before, ret, frames>>

\* lines 198-201
SyncApply ==
  /\ pc = "SyncApply"
  /\ layers' = IF element.syncViewports = "true"
               THEN SyncViewports(layers, GetVisibleLayers(layers), active)
               ELSE layers
  /\ pc' = "Clear"
  /\ UNCHANGED <<active, element, canvas, thrown, call, before, ret, frames>>

\* lines 203-213: the clear, and renderLayers begins its forEach
Clear ==
  /\ pc = "Clear"
  /\ canvas' = canvas \o ClearOps
  /\ call' = <<[call[1] EXCEPT !.k = 1]>>
  /\ pc' = IF GetVisibleLayers(layers) = <<>> THEN "Return" ELSE "PerLayerDraw"
  /\ UNCHANGED <<layers, active, element, thrown, before, ret, frames>>

\* lines 75-137: one callback of the forEach over the visible layers, for the
\* layer at position call[1].k of the list
PerLayerDraw ==
  /\ pc = "PerLayerDraw"
  /\ \E i \in {GetVisibleLayers(layers)[call[1].k]} :
     \E r \in {DrawLayer(layers, canvas, i, call[1].k - 1, active, call[1].invalidated)} :
         /\ layers' = r.layers
         /\ canvas' = r.canvas
         /\ thrown' = r.thrown
         /\ pc' = IF r.thrown # "none" \/ call[1].k = Len(GetVisibleLayers(layers))
                  THEN "Return" ELSE "PerLayerDraw"
  /\ call' = <<[call[1] EXCEPT !.k = call[1].k + 1]>>
  /\ UNCHANGED <<active, element, before, ret, frames>>

\* the call returns, or the exception leaves it: its locals and the record of
\* what it did to the context are gone
Return ==
  /\ pc = "Return"
  /\ pc' = "Idle"
  /\ call' = <<>>
  /\ canvas' = <<>>
  /\ thrown' = "none"
  /\ UNCHANGED <<layers, active, element, before, ret, frames>>

Next ==
  \/ \E v \in {"false", "true", "1"} : SetSyncViewports(v)
  \/ \E i \in 1..Len(layers) : SetActiveLayer(i)
  \/ \E i \in 1..Len(layers) : \E vp \in ViewportInputs : SetViewport(i, vp)
  \/ \E i \in 1..Len(layers) : \E visible \in BOOLEAN : SetVisible(i, visible)
  \/ \E i \in 1..Len(layers) : RequestResize(i)
  \/ \E invalidated \in BOOLEAN : RenderComposite(invalidated)
  \/ ResizeCheck
  \/ ResizeLoop
  \/ ForcedSync
  \/ SyncApply
  \/ Clear
  \/ PerLayerDraw
  \/ Return

Spec == Init /\ [][Next]_vars

\* ------------------------- render calls alone, on registries of three layers
MaxRegistry == 3    \* largest registry of the calls rendered without the host

\* the steps of one call of the composite renderer
NextFrame ==
  \/ \E invalidated \in BOOLEAN : RenderComposite(invalidated)
  \/ ResizeCheck
  \/ ResizeLoop
  \/ ForcedSync
  \/ SyncApply
  \/ Clear
  \/ PerLayerDraw
  \/ Return

\* layers as the host has left them: zoomed, rotated, with or without a
\* pending resize request
ResizeKinds ==
  { [image |-> Image(<<"ct">>, Num(256), Num(256)), name |-> "CT", reSize |-> FALSE,
     viewport |-> Viewport(Num(1), 0, Num(0), Num(0), FALSE, FALSE, Num(1))],
    [image |-> Image(<<"ct">>, Num(256), Num(256)), name |-> "CT", reSize |-> FALSE,
     viewport |-> Viewport(Frac(7, 4), 90, Num(3), Num(0 - 5), TRUE, FALSE, Frac(1, 2))],
    [image |-> Image(<<"pet">>, Num(512), Num(512)), name |-> "PET", reSize |-> FALSE,
     viewport |-> Viewport(Frac(3, 4), 180, Num(0 - 2), Num(1), FALSE, TRUE, Num(1))],
    [image |-> Image(<<"pet">>, Num(512), Num(512)), name |-> "PET", reSize |-> TRUE,
     viewport |-> Viewport(Num(1), 0, Num(0), Num(0), FALSE, FALSE, Num(1))],
    [image |-> Image(<<"petmpr", "Coronal">>, Num(512), Num(256)), name |-> "PET",
     reSize |-> TRUE,
     viewport |-> Viewport(Frac(7, 4), 90, Num(3), Num(0 - 5), TRUE, FALSE, Frac(1, 2))],
    [image |-> Undefined, name |-> "", reSize |-> FALSE, viewport |-> Undefined] }

InitResize ==
  /\ \E n \in 1..MaxRegistry :
       \E kinds \in [1..n -> ResizeKinds] : \E visible \in [1..n -> BOOLEAN] :
         /\ layers = [i \in 1..n |->
                        [Layer(i, kinds[i].image, kinds[i].viewport, Undefined,
                               kinds[i].name, visible[i])
                           EXCEPT !.options.reSize = kinds[i].reSize]]
         /\ active \in 1..n
  /\ \E v \in {"false", "true"} :
       element = [syncViewports |-> v, lastSyncViewportsState |-> "undefined"]
  /\ pc = "Idle"
  /\ canvas = <<>>
  /\ thrown = "none"
  /\ call = <<>>
  /\ before = <<>>
  /\ ret = <<>>
  /\ frames = 0

SpecResize == InitResize /\ [][NextFrame]_vars

\* ------------------------------ render calls alone, on layers of every look
\* what the rasterizer choice reads of a layer, and one pending resize
DrawKinds ==
  { [image |-> Image(<<"ct">>, Num(256), Num(256)), name |-> "CT", reSize |-> FALSE,
     colormap |-> "undefined", optionsColormap |-> "undefined", labelmap |-> "undefined"],
    [image |-> [Image(<<"ct">>, Num(256), Num(256)) EXCEPT !.color = TRUE],
     name |-> "CT", reSize |-> FALSE,
     colormap |-> "undefined", optionsColormap |-> "undefined", labelmap |-> "undefined"],
    [image |-> Image(<<"ct">>, Num(256), Num(256)), name |-> "CT", reSize |-> FALSE,
     colormap |-> "hot", optionsColormap |-> "undefined", labelmap |-> "undefined"],
    [image |-> Image(<<"ct">>, Num(256), Num(256)), name |-> "CT", reSize |-> FALSE,
     colormap |-> "undefined", optionsColormap |-> "hot", labelmap |-> "true"],
    [image |-> [Image(<<"ct">>, Num(256), Num(256)) EXCEPT !.color = TRUE],
     name |-> "CT", reSize |-> FALSE,
     colormap |-> "", optionsColormap |-> "undefined", labelmap |-> "true"],
    [image |-> [Image(<<"ct">>, Num(256), Num(256)) EXCEPT !.color = TRUE],
     name |-> "CT", reSize |-> FALSE,
     colormap |-> "hot", optionsColormap |-> "gray", labelmap |-> "false"],
    [image |-> Image(<<"pet">>, Num(512), Num(512)), name |-> "PET", reSize |-> TRUE,
     colormap |-> "undefined", optionsColormap |-> "hot", labelmap |-> "undefined"],
    [image |-> Image(<<"petmpr", "Coronal">>, Num(512), Num(256)), name |-> "PET",
     reSize |-> FALSE,
     colormap |-> "undefined", optionsColormap |-> "undefined", labelmap |-> "undefined"],
    [image |-> Undefined, name |-> "", reSize |-> FALSE,
     colormap |-> "undefined", optionsColormap |-> "undefined", labelmap |-> "undefined"] }

\* the layer of a kind: its viewport carries the colormap and labelmap
DrawLayerInput(layerId, kind, visible, invalid) ==
  LET l == NewLayer(layerId, kind)
  IN  [l EXCEPT !.viewport = IF IsDefined(kind.image)
                             THEN [@ EXCEPT !.colormap = kind.colormap,
                                            !.labelmap = kind.labelmap]
                             ELSE @,
                !.options.colormap = kind.optionsColormap,
                !.options.reSize = kind.reSize,
                !.options.visible = visible,
                !.invalid = invalid]

InitDraw ==
  /\ \E n \in 1..NumLayers :
       \E kinds \in [1..n -> DrawKinds] :
         \E visible \in [1..n -> BOOLEAN] : \E invalid \in [1..n -> BOOLEAN] :
           /\ layers = [i \in 1..n |->
                          DrawLayerInput(i, kinds[i], visible[i], invalid[i])]
           /\ active \in 1..n
  /\ element = [syncViewports |-> "false", lastSyncViewportsState |-> "undefined"]
  /\ pc = "Idle"
  /\ canvas = <<>>
  /\ thrown = "none"
  /\ call = <<>>
  /\ before = <<>>
  /\ ret = <<>>
  /\ frames = 0

SpecDraw == InitDraw /\ [][NextFrame]_vars

\* ------------------------ calculatePetFuisonTransform called on its own
\* viewports of the layer the transform is built for
FusionViewports ==
  { [Viewport(scale, rotation, pan[1], pan[2], hflip, vflip, Num(1))
       EXCEPT !.displayedArea.brhc = [x |-> 512, y |-> 256]] :
      scale \in {Num(1), Frac(7, 4)}, rotation \in {0, 90, 0 - 90},
      pan \in {<<Num(0), Num(0)>>, <<Num(3), Num(0 - 5)>>},
      hflip \in BOOLEAN, vflip \in BOOLEAN }

\* images of the active layer: square and non-square pixels
FusionActiveImages ==
  { [Image(<<"ct">>, Num(256), Num(256))
       EXCEPT !.rowPixelSpacing = sp[1], !.columnPixelSpacing = sp[2]] :
      sp \in {<<Num(1), Num(1)>>, <<Num(1), Num(2)>>, <<Num(3), Num(1)>>} }

InitFusion ==
  /\ \E im \in FusionActiveImages : \E av \in ViewportInputs : \E lv \in FusionViewports :
       layers = << Layer(1, im, av, Undefined, "CT", TRUE),
                   Layer(2, Image(<<"petmpr", "Coronal">>, Num(512), Num(256)), lv,
                         Undefined, "PET", TRUE) >>
  /\ active = 1
  /\ element = [syncViewports |-> "false", lastSyncViewportsState |-> "undefined"]
  /\ pc = "Idle"
  /\ canvas = <<>>
  /\ thrown = "none"
  /\ call = <<>>
  /\ before = layers
  /\ ret = <<>>
  /\ frames = 0

CallCalculatePetFuisonTransform(i, a) ==
  /\ pc = "Idle"
  /\ LET t == CalculatePetFuisonTransform(layers, i, a)
     IN  /\ layers' = t.layers
         /\ ret' = <<t.transform>>
  /\ call' = <<[op |-> "calculatePetFuisonTransform", layer |-> i, activeLayer |-> a]>>
  /\ before' = layers
  /\ pc' = "Done"
  /\ UNCHANGED <<active, element, canvas, thrown, frames>>

NextFusion == \E i, a \in 1..Len(layers) : CallCalculatePetFuisonTransform(i, a)

SpecFusion == InitFusion /\ [][NextFusion]_vars

\* x and y agree to within rounding: |x - y| <= 2^(2 - Precision) * |y|
Close(x, y) ==
  LET e == IF x[2] < y[2] THEN x[2] ELSE y[2]
      xm == x[1] * 2^(x[2] - e)
      ym == y[1] * 2^(y[2] - e)
  IN  Abs(xm - ym) * 2^(Precision - 2) <= Abs(ym)

\* an image has a source identifier when its imageId is not the empty string
HasSourceId(image) == image.imageId # <<>>

RescaleDone == pc = "Done" /\ Len(call) = 1 /\ call[1].op = "rescaleImage"
BaseBefore == before[call[1].base]
TargetBefore == before[call[1].target]

\* C5: rescaleImage(A, A), A a layer with a valid image, throws the
\* invalid-argument Error and leaves the registry (A's viewport and scale
\* included) as it was.
C5_SameLayerRejected ==
  (RescaleDone /\ call[1].base = call[1].target /\ IsDefined(BaseBefore.image))
    => (thrown = "Error" /\ layers = before)

C5_Witness ==
  /\ RescaleDone /\ call[1].base = call[1].target
  /\ IsDefined(BaseBefore.image) /\ HasSourceId(BaseBefore.image)
  /\ thrown = "Error" /\ layers = before

\* C6: for distinct layers that both carry an image, rescaleImage returns
\* normally and changes no field of the registry when the base image or the
\* target image has no imageId.
C6_NoImageIdNoOp ==
  (/\ RescaleDone /\ call[1].base # call[1].target
   /\ IsDefined(BaseBefore.image) /\ IsDefined(TargetBefore.image)
   /\ (~HasSourceId(BaseBefore.image) \/ ~HasSourceId(TargetBefore.image)))
    => (thrown = "none" /\ layers = before)

C6_Witness ==
  /\ RescaleDone /\ call[1].base # call[1].target
  /\ IsDefined(BaseBefore.image) /\ HasSourceId(BaseBefore.image)
  /\ IsDefined(TargetBefore.image) /\ ~HasSourceId(TargetBefore.image)
  /\ RescaledScale(BaseBefore, TargetBefore) # TargetBefore.viewport.scale
  /\ thrown = "none" /\ layers = before

\* the case of C7: two distinct layers whose images both have an imageId
RescaleApplies ==
  /\ RescaleDone /\ call[1].base # call[1].target
  /\ IsDefined(BaseBefore.image) /\ HasSourceId(BaseBefore.image)
  /\ IsDefined(TargetBefore.image) /\ HasSourceId(TargetBefore.image)

\* target.scale := base.scale * ((target.scale / base.scale) * colRelative),
\* colRelative = (targetColumnSpacing * targetWidth) / (baseColumnSpacing * baseWidth)
C7_Formula ==
  LET colRelative ==
        FDiv(FMul(TargetBefore.viewport.displayedArea.columnPixelSpacing,
                  TargetBefore.image.width),
             FMul(BaseBefore.viewport.displayedArea.columnPixelSpacing,
                  BaseBefore.image.width))
  IN  FMul(BaseBefore.viewport.scale,
           FMul(FDiv(TargetBefore.viewport.scale, BaseBefore.viewport.scale), colRelative))

C7_ColRelativeIsOne ==
  FMul(TargetBefore.viewport.displayedArea.columnPixelSpacing, TargetBefore.image.width)
    = FMul(BaseBefore.viewport.displayedArea.columnPixelSpacing, BaseBefore.image.width)

\* C7 (as stated): rescaleImage sets target.scale by the formula, changes
\* nothing else, and leaves target.scale unchanged when colRelative = 1.
C7_Original ==
  RescaleApplies =>
    /\ thrown = "none"
    /\ layers = [before EXCEPT ![call[1].target].viewport.scale = C7_Formula]
    /\ (C7_ColRelativeIsOne =>
          layers[call[1].target].viewport.scale = TargetBefore.viewport.scale)

\* C7 (amended): rescaleImage sets target.scale by the formula and changes
\* nothing else; when colRelative = 1 the new target.scale equals the old one
\* to within floating-point rounding (exactly when the two scales are equal).
C7_RescaleFormula ==
  RescaleApplies =>
    /\ thrown = "none"
    /\ layers = [before EXCEPT ![call[1].target].viewport.scale = C7_Formula]
    /\ (C7_ColRelativeIsOne =>
          /\ Close(layers[call[1].target].viewport.scale, TargetBefore.viewport.scale)
          /\ (TargetBefore.viewport.scale = BaseBefore.viewport.scale =>
                layers[call[1].target].viewport.scale = TargetBefore.viewport.scale))

C7_Witness ==
  /\ RescaleApplies /\ thrown = "none"
  /\ ~C7_ColRelativeIsOne
  /\ layers[call[1].target].viewport.scale # TargetBefore.viewport.scale
  /\ layers[call[1].target].viewport.scale = C7_Formula

\* ------------------------------------------------ claims on syncViewports
SyncDone == pc = "Done" /\ Len(call) = 1 /\ call[1].op = "syncViewports"

\* the layers syncViewports rewrites: in the set given, not the active layer,
\* with a viewport, the active layer having one too
Synced(i) ==
  /\ layers[i].options.visible /\ i # active
  /\ IsDefined(layers[i].viewport) /\ IsDefined(layers[active].viewport)

\* C1: after syncViewports, every layer L of the given set that is not the
\* active layer and has a viewport (the active layer having one too) has, with
\* r = L.syncProps.originalScale / active.syncProps.originalScale,
\* scale = active.scale * r and translation = active.translation / r.
C1_SyncScaleTranslation ==
  SyncDone =>
    \A i \in 1..Len(layers) : Synced(i) =>
      LET r  == FDiv(layers[i].syncProps.originalScale,
                     layers[active].syncProps.originalScale)
          av == layers[active].viewport
      IN  /\ layers[i].viewport.scale = FMul(av.scale, r)
          /\ layers[i].viewport.translation.x = FDiv(av.translation.x, r)
          /\ layers[i].viewport.translation.y = FDiv(av.translation.y, r)

C1_Witness ==
  /\ SyncDone
  /\ \E i \in 1..Len(layers) :
       /\ Synced(i)
       /\ layers[i].syncProps.originalScale # layers[active].syncProps.originalScale
       /\ layers[active].viewport.translation.x # Num(0)
       /\ layers[i].viewport # before[i].viewport
       /\ layers[i].viewport.translation.x # layers[active].viewport.translation.x

\* rotation and flips of a layer, Undefined for a layer without a viewport
Orientation(layer) ==
  IF IsDefined(layer.viewport)
  THEN [rotation |-> layer.viewport.rotation, hflip |-> layer.viewport.hflip,
        vflip |-> layer.viewport.vflip]
  ELSE Undefined

\* C2 (as stated): after syncViewports every non-active visible layer has the
\* active layer's rotation and flip flags.
C2_Original ==
  SyncDone =>
    \A i \in 1..Len(layers) : (layers[i].options.visible /\ i # active) =>
      Orientation(layers[i]) = Orientation(layers[active])

\* C2 (amended): after syncViewports every non-active visible layer that has
\* a viewport, the active layer having one too, has exactly the active
\* layer's rotation, hflip and vflip.
C2_SyncOrientation ==
  SyncDone =>
    \A i \in 1..Len(layers) : Synced(i) =>
      /\ layers[i].viewport.rotation = layers[active].viewport.rotation
      /\ layers[i].viewport.hflip = layers[active].viewport.hflip
      /\ layers[i].viewport.vflip = layers[active].viewport.vflip

C2_Witness ==
  /\ SyncDone
  /\ \E i \in 1..Len(layers) :
       /\ Synced(i)
       /\ Orientation(before[i]) # Orientation(before[active])
       /\ before[active].viewport.hflip # before[active].viewport.vflip
       /\ Orientation(layers[i]) = Orientation(layers[active])

\* --------------------------------------------- claims on getViewportRatio
\* the second call asked for the ratio the other way round, and both layers
\* had a snapshot of positive scale before the first call
RatioBothWays ==
  /\ pc = "Twice"
  /\ call[2].base = call[1].target /\ call[2].target = call[1].base
  /\ IsDefined(before[call[1].base].syncProps)
  /\ IsDefined(before[call[1].target].syncProps)

RatioSnapshotsKept ==
  \A i \in {call[1].base, call[1].target} : layers[i].syncProps = before[i].syncProps

\* C8 (as stated): viewportRatio(A, B) = 1 / viewportRatio(B, A), and neither
\* snapshot changes.
C8_Original ==
  RatioBothWays => (ret[1] = FDiv(Num(1), ret[2]) /\ RatioSnapshotsKept)

\* C8 (amended): viewportRatio(A, B) equals 1 / viewportRatio(B, A) to within
\* floating-point rounding, and exactly when the two baseline scales are
\* equal; computing either ratio changes neither snapshot.
C8_RatioReciprocal ==
  RatioBothWays =>
    /\ Close(ret[1], FDiv(Num(1), ret[2]))
    /\ (before[call[1].base].syncProps = before[call[1].target].syncProps =>
          ret[1] = FDiv(Num(1), ret[2]))
    /\ RatioSnapshotsKept

C8_Witness ==
  /\ RatioBothWays /\ call[1].base # call[1].target
  /\ before[call[1].base].syncProps # before[call[1].target].syncProps
  /\ before[call[1].base].syncProps.originalScale
       # before[call[1].base].viewport.scale
  /\ ret[1] = FDiv(Num(1), ret[2])

\* ------------------------------------- claims on the composite renderer
\* a step of a render call that recomputed a snapshot layer i already had
SnapshotRecomputed(i) ==
  /\ i \in 1..Len(layers) /\ Len(layers') = Len(layers)
  /\ IsDefined(layers[i].syncProps)
  /\ layers'[i].syncProps # layers[i].syncProps

C4_ResyncCheck ==
  [][(pc = "Idle" /\ pc' = "ResizeCheck") =>
       /\ element'.lastSyncViewportsState = element'.syncViewports
       /\ element'.syncViewports = element.syncViewports
       /\ IF element.lastSyncViewportsState \in {"undefined", "false"}
             /\ element.syncViewports \in {"true", "1"}
          THEN \A i \in 1..Len(layers) :
                 layers'[i] =
                   IF IsDefined(layers[i].viewport)
                   THEN [layers[i] EXCEPT
                           !.syncProps = [originalScale |-> layers[i].viewport.scale]]
                   ELSE layers[i]
          ELSE layers' = layers]_vars

C4_Witness ==
  /\ pc = "ResizeCheck" /\ call[1].resynced /\ frames = MaxFrames
  /\ element.lastSyncViewportsState = "1"
  /\ \E i \in 1..Len(layers) :
       /\ IsDefined(layers[i].viewport)
       /\ layers[i].syncProps = [originalScale |-> layers[i].viewport.scale]
       /\ layers[i].viewport.scale # Num(1)
  /\ \E i \in 1..Len(layers) :
       ~IsDefined(layers[i].viewport) /\ ~IsDefined(layers[i].syncProps)

\* the registry entries a kind of operation was applied to, in order
RECURSIVE LayersOf(_, _)
LayersOf(cv, op) ==
  IF cv = <<>> THEN <<>>
  ELSE IF Head(cv).op = op THEN <<Head(cv).layer>> \o LayersOf(Tail(cv), op)
  ELSE LayersOf(Tail(cv), op)

\* C9: a renderComposite call on a view with no visible layer still resets
\* the context's transform to identity and fills the whole canvas black, and
\* rasterizes and copies no layer, whatever the registry, the sync flags and
\* the pending resize requests are.
C9_EmptyVisibleStillClears ==
  (pc = "Return" /\ GetVisibleLayers(layers) = <<>>) => canvas = ClearOps

\* C10: in a renderComposite call the clear comes before any layer copy, the
\* visible layers that have an image are rasterized and copied once each in
\* the order of the visible-layer list, and visible layers without an image
\* are neither rasterized nor copied.
C10_DrawOrder ==
  pc = "Return" =>
    LET drawn == SelectSeq(GetVisibleLayers(layers), LAMBDA i : IsDefined(layers[i].image))
    IN  /\ Len(canvas) >= Len(ClearOps)
        /\ SubSeq(canvas, 1, Len(ClearOps)) = ClearOps
        /\ LayersOf(canvas, "drawImage") = drawn
        /\ LayersOf(canvas, "rasterize") = drawn

\* --------------------------------------------- claims on the resize branch
\* the call found a pending resize request of a PET layer and is over
ResizeCallOver == pc = "Return" /\ call[1].bResetPetScale

\* the call was ended by an exception of the resize processing
ResizeThrew == ResizeCallOver /\ thrown # "none" /\ canvas = <<>>

\* layer i stands as a sync pass from the active layer leaves it
InSync(i) ==
  /\ IsDefined(layers[active].viewport)
  /\ IsDefined(layers[i].syncProps) /\ IsDefined(layers[active].syncProps)
  /\ Orientation(layers[i]) = Orientation(layers[active])
  /\ layers[i].viewport.scale =
       FMul(layers[active].viewport.scale,
            FDiv(layers[i].syncProps.originalScale,
                 layers[active].syncProps.originalScale))

\* C11: after a renderComposite call that began with a pending resize request
\* of a layer named PET, whatever the sync flag is, every visible non-active
\* layer that has a viewport has the active layer's rotation and flips and
\* scale = active.scale * viewportRatio(active, layer).
C11_ForcedSync ==
  ResizeCallOver =>
    \A i \in 1..Len(layers) :
      (layers[i].options.visible /\ i # active /\ IsDefined(layers[i].viewport))
        => InSync(i)

\* C12: a step of the resize processing changes the viewport scale of no
\* layer other than a layer named PET that carries a pending resize request.
C12_OnlyRequestedRescaled ==
  [][pc = "ResizeLoop" =>
       \A i \in 1..Len(layers) :
         (IsDefined(layers[i].viewport)
            /\ ~(layers[i].options.name = "PET" /\ layers[i].options.reSize))
           => layers'[i].viewport.scale = layers[i].viewport.scale]_vars

\* C13: after a renderComposite call that began with a pending resize request
\* no layer named PET carries a pending resize request.
C13_ResizeOneShot ==
  ResizeCallOver =>
    \A i \in 1..Len(layers) :
      layers[i].options.name = "PET" => ~layers[i].options.reSize

\* ------------------------------------ claims on the fusion transform
FusionDone == pc = "Done" /\ Len(call) = 1 /\ call[1].op = "calculatePetFuisonTransform"

\* C14: the operations composed by calculatePetFuisonTransform are, in this
\* order: translate to the canvas center; rotate by the layer's rotation;
\* one non-uniform scale; rotate by the negated rotation; translate by the
\* layer's pan offset; rotate by the rotation; scale (-1, 1) if hflip;
\* scale (1, -1) if vflip; translate by minus half the layer's displayed
\* width and height.  The three rotations are there when the rotation is
\* nonzero and none of them when it is zero; each flip is there iff its flag
\* is set; nothing else is composed.
C14_FusionOrder ==
  FusionDone =>
    LET t  == ret[1]
        lv == before[call[1].layer].viewport
        rotated == lv.rotation # 0
        at == IF rotated THEN 3 ELSE 2
        width == lv.displayedArea.brhc.x - (lv.displayedArea.tlhc.x - 1)
        height == lv.displayedArea.brhc.y - (lv.displayedArea.tlhc.y - 1)
        Rot(d) == IF rotated THEN <<[op |-> "rotate", degrees |-> d]>> ELSE <<>>
    IN  /\ Len(t) >= at
        /\ t[at].op = "scale"
        /\ t = << [op |-> "translate", x |-> Num(CanvasWidth \div 2),
                                       y |-> Num(CanvasHeight \div 2)] >>
               \o Rot(lv.rotation)
               \o << t[at] >>
               \o Rot(0 - lv.rotation)
               \o << [op |-> "translate", x |-> lv.translation.x, y |-> lv.translation.y] >>
               \o Rot(lv.rotation)
               \o (IF lv.hflip THEN <<[op |-> "scale", x |-> Num(0 - 1), y |-> Num(1)]>>
                   ELSE <<>>)
               \o (IF lv.vflip THEN <<[op |-> "scale", x |-> Num(1), y |-> Num(0 - 1)]>>
                   ELSE <<>>)
               \o << [op |-> "translate", x |-> Num(0 - (width \div 2)),
                                       y |-> Num(0 - (height \div 2))] >>

C14_Witness ==
  /\ FusionDone /\ call[1].layer # call[1].activeLayer
  /\ before[call[1].layer].viewport.rotation = 90
  /\ before[call[1].layer].viewport.hflip /\ ~before[call[1].layer].viewport.vflip
  /\ before[call[1].layer].viewport.translation.x # Num(0)
  /\ Len(ret[1]) = 8
  /\ ret[1][4] = [op |-> "rotate", degrees |-> 0 - 90]
  /\ ret[1][3].x # ret[1][3].y

\* a transform built for an unrotated layer carries no rotation
C14_WitnessUnrotated ==
  /\ FusionDone
  /\ before[call[1].layer].viewport.rotation = 0
  /\ before[call[1].layer].viewport.vflip
  /\ \A k \in 1..Len(ret[1]) : ret[1][k].op # "rotate"

\* -------------------------------------------- claims on renderLayers
\* the positions of the context's record where an operation touched layer i
OpsOn(cv, op, i) == { k \in 1..Len(cv) : cv[k].op = op /\ cv[k].layer = i }

\* a colormap is set on the layer: on its viewport, or else in its options
HasColormap(layer) ==
  \/ layer.viewport.colormap \notin {"undefined", ""}
  \/ layer.options.colormap \notin {"undefined", ""}

\* the renderer the precedence of C15 gives a layer
Precedence(layer) ==
  IF HasColormap(layer) /\ layer.viewport.labelmap = "true" THEN "addLabelMapLayer"
  ELSE IF HasColormap(layer) THEN "addPseudoColorLayer"
  ELSE IF layer.image.color = TRUE THEN "addColorLayer"
  ELSE "addGrayscaleLayer"

\* C15: the draw steps call exactly one external renderer for every layer they
\* copy, chosen by the precedence label-map (colormap set and labelmap
\* true) > pseudo-color (colormap set) > true-color (image.color) >
\* grayscale; the grayscale renderer is asked for the alpha channel for the
\* first layer of the visible-layer list and for no other; every renderer
\* gets forceRedraw = layer.invalid or invalidated.
C15_RasterizerChoice ==
  [][pc = "PerLayerDraw" =>
       \A i \in 1..Len(layers) :
         /\ OpsOn(canvas', "drawImage", i) # {} =>
               Cardinality(OpsOn(canvas', "rasterize", i)) = 1
         /\ \A k \in OpsOn(canvas', "rasterize", i) \ (1..Len(canvas)) :
               /\ canvas'[k].args.renderer = Precedence(layers[i])
               /\ canvas'[k].args.isInvalid = (layers[i].invalid \/ call[1].invalidated)
               /\ canvas'[k].args.renderer = "addGrayscaleLayer" =>
                     canvas'[k].args.useAlphaChannel = (GetVisibleLayers(layers)[1] = i)
               /\ canvas'[k].args.renderer # "addGrayscaleLayer" =>
                     DOMAIN canvas'[k].args = {"renderer", "isInvalid"}]_vars

C15_Witness ==
  /\ pc = "Return" /\ thrown = "none" /\ ~call[1].invalidated
  /\ Len(GetVisibleLayers(layers)) = 2
  /\ \E k \in OpsOn(canvas, "rasterize", 1) :
       canvas[k].args = [renderer |-> "addGrayscaleLayer", isInvalid |-> TRUE,
                         useAlphaChannel |-> TRUE]
  /\ \E k \in OpsOn(canvas, "rasterize", 2) :
       /\ canvas[k].args = [renderer |-> "addPseudoColorLayer", isInvalid |-> FALSE]
       /\ layers[2].image.color = TRUE

\* C16: when a renderComposite call returns, every visible layer that has an
\* image has its dirty flag cleared, and no step of the call changes the
\* dirty flag of a layer that has no image or is not visible.
C16_DirtyCleared ==
  /\ []((pc = "Return" /\ thrown = "none") =>
          \A i \in 1..Len(layers) :
            (layers[i].options.visible /\ IsDefined(layers[i].image))
              => ~layers[i].invalid)
  /\ [][\A i \in 1..Len(layers) :
          (~layers[i].options.visible \/ ~IsDefined(layers[i].image))
            => layers'[i].invalid = layers[i].invalid]_vars

C16_Witness ==
  /\ pc = "Return" /\ thrown = "none" /\ ~call[1].invalidated /\ frames = 1
  /\ Len(layers) = 2
  /\ layers[1].options.visible /\ ~layers[1].invalid
  /\ \E k \in OpsOn(canvas, "rasterize", 1) : canvas[k].args.isInvalid
  /\ ~layers[2].options.visible /\ IsDefined(layers[2].image) /\ layers[2].invalid

\* ------------------------------------- more claims on syncViewports
SyncTwice == pc = "Twice" /\ Len(call) = 1 /\ call[1].op = "syncViewports"

\* C17: a second syncViewports over the same layers and active layer, with no
\* change in between, leaves every viewport and every snapshot as the first
\* one left them.
C17_SyncIdempotent == SyncTwice => layers = before

C17_Witness ==
  /\ SyncTwice /\ layers = before
  /\ \E i \in 1..Len(layers) :
       /\ Synced(i)
       /\ layers[i].syncProps.originalScale # layers[i].viewport.scale
       /\ layers[i].viewport.scale # layers[active].viewport.scale
       /\ layers[active].syncProps.originalScale # layers[active].viewport.scale

\* C18: syncViewports leaves the active layer's viewport, the viewport of
\* every layer outside the given set and every snapshot that existed as they
\* were; a snapshot it creates holds the scale the layer had before the call,
\* and it writes nothing but viewports and snapshots.
C18_SyncFrame ==
  SyncDone =>
    /\ Len(layers) = Len(before)
    /\ layers[active].viewport = before[active].viewport
    /\ \A i \in 1..Len(layers) :
         /\ ~layers[i].options.visible => layers[i].viewport = before[i].viewport
         /\ IsDefined(before[i].syncProps) => layers[i].syncProps = before[i].syncProps
         /\ (~IsDefined(before[i].syncProps) /\ IsDefined(layers[i].syncProps)) =>
               layers[i].syncProps = [originalScale |-> before[i].viewport.scale]
         /\ layers[i] = [before[i] EXCEPT !.viewport = layers[i].viewport,
                                          !.syncProps = layers[i].syncProps]

C18_Witness ==
  /\ SyncDone /\ Len(layers) = NumLayers
  /\ layers[active].options.visible
  /\ ~IsDefined(before[active].syncProps) /\ IsDefined(layers[active].syncProps)
  /\ \E i \in 1..Len(layers) :
       /\ Synced(i) /\ IsDefined(before[i].syncProps)
       /\ layers[i].viewport # before[i].viewport
       /\ before[i].syncProps.originalScale # before[i].viewport.scale

\* --------------------------------------- claims on zoom across renders
\* a render call with the sync flag on and no pending resize is over
SyncedCallOver ==
  pc = "Return" /\ element.syncViewports = "true" /\ ~call[1].bResetPetScale

\* the visible layers that have a viewport
Zoomable == { i \in 1..Len(layers) :
                layers[i].options.visible /\ IsDefined(layers[i].viewport) }

ResyncedStep ==
  /\ Len(call') = 1 /\ call'[1].resynced /\ element'.syncViewports = "true"
  /\ ~BResetPetScale(layers) /\ ~call'[1].bResetPetScale
  /\ Len(layers') = Len(layers)

\* the step rewrote at most rotation, translation and flips of layer i
OrientationOnly(i) ==
  /\ IsDefined(layers[i].viewport) = IsDefined(layers'[i].viewport)
  /\ IsDefined(layers[i].viewport) =>
       layers'[i].viewport = [layers[i].viewport EXCEPT
                                !.scale = layers'[i].viewport.scale,
                                !.rotation = layers'[i].viewport.rotation,
                                !.translation = layers'[i].viewport.translation,
                                !.hflip = layers'[i].viewport.hflip,
                                !.vflip = layers'[i].viewport.vflip]

\* C20 (as stated): the call that detects sync just turned on, with no
\* pending resize, changes no layer's scale, and rewrites only rotation,
\* translation and flips of non-active visible layers.
C20_Original ==
  [][ResyncedStep =>
       \A i \in 1..Len(layers) :
         /\ OrientationOnly(i)
         /\ IsDefined(layers[i].viewport) =>
               layers'[i].viewport.scale = layers[i].viewport.scale
         /\ (i = active \/ ~layers[i].options.visible) =>
               layers'[i].viewport = layers[i].viewport]_vars

\* C20 (amended): the call that detects sync just turned on, with no pending
\* resize, leaves every layer's scale as it was to within floating-point
\* rounding, and exactly as it was for the active layer, for a layer that is
\* not visible and for a layer whose scale equals the active layer's; of the
\* viewports it rewrites only scale, rotation, translation and flips of
\* non-active visible layers.
C20_ResyncKeepsZoom ==
  [][ResyncedStep =>
       \A i \in 1..Len(layers) :
         /\ OrientationOnly(i)
         /\ IsDefined(layers[i].viewport) =>
               /\ Close(layers'[i].viewport.scale, layers[i].viewport.scale)
               /\ (active \in 1..Len(layers) /\ IsDefined(layers[active].viewport)
                     /\ layers[i].viewport.scale = layers[active].viewport.scale) =>
                     layers'[i].viewport.scale = layers[i].viewport.scale
         /\ (i = active \/ ~layers[i].options.visible) =>
               layers'[i].viewport = layers[i].viewport]_vars

C20_Witness ==
  /\ pc = "Clear" /\ call[1].resynced /\ ~call[1].bResetPetScale
  /\ element.syncViewports = "true"
  /\ \E i \in 1..Len(layers) :
       /\ Synced(i)
       /\ layers[i].viewport.scale # layers[active].viewport.scale
       /\ layers[i].viewport.scale = layers[i].syncProps.originalScale
       /\ layers[active].viewport.rotation # 0
       /\ layers[i].viewport.rotation = layers[active].viewport.rotation
       /\ layers[i].viewport.translation # layers[active].viewport.translation

====
